---- MODULE Spec2Model ----
(***************************************************************************)
(* Model of src/etl_pipeline.py: a batch ETL run (CSV -> staging tables -> *)
(* final tables -> report) against a PostgreSQL database that outlives the *)
(* process.  One behaviour is a sequence of process runs on one database.  *)
(*                                                                         *)
(* Encoding of values:                                                     *)
(*   - a nullable cell is a sequence: <<>> is NULL/NaN, <<v>> is value v;  *)
(*   - text that the code transforms (name, sex, ticket number) is a       *)
(*     sequence of one-character strings; other text is a TLA+ string;     *)
(*   - numbers are integers (age 30.0 is 30).                              *)
(***************************************************************************)
EXTENDS Integers, Sequences, FiniteSets, TLC

\* ------------------------------------------------------------------ bounds
MaxRuns == 3

MaxRows == 2

\* ------------------------------------------------------- program constants
DefaultAge == 30

PlaceholderClass == 3

DefaultEmbarked == "S"

PlaceholderCabin == "Unknown"

\* --------------------------------------------------------------- nullables
Null == <<>>

Some(v) == <<v>>

\* SQL COALESCE(x, d)
Coalesce(x, d) == IF x = Null THEN Some(d) ELSE x

\* ------------------------------------------------------------ text helpers
UpperLetters ==
    <<"A","B","C","D","E","F","G","H","I","J","K","L","M",
      "N","O","P","Q","R","S","T","U","V","W","X","Y","Z">>

LowerLetters ==
    <<"a","b","c","d","e","f","g","h","i","j","k","l","m",
      "n","o","p","q","r","s","t","u","v","w","x","y","z">>

LowerChar(c) ==
    IF \E i \in 1..26 : UpperLetters[i] = c
    THEN LowerLetters[CHOOSE i \in 1..26 : UpperLetters[i] = c]
    ELSE c

\* SQL LOWER(s); LOWER(NULL) is NULL
Lower(x) == IF x = Null THEN Null ELSE Some([i \in 1..Len(x[1]) |-> LowerChar(x[1][i])])

RECURSIVE LTrim(_)
LTrim(s) == IF s # <<>> /\ Head(s) = " " THEN LTrim(Tail(s)) ELSE s

RECURSIVE RTrim(_)
RTrim(s) == IF s # <<>> /\ s[Len(s)] = " " THEN RTrim(SubSeq(s, 1, Len(s) - 1)) ELSE s

\* SQL TRIM(s): strips spaces at both ends; TRIM(NULL) is NULL
Trim(x) == IF x = Null THEN Null ELSE Some(RTrim(LTrim(x[1])))

Digits == <<"0","1","2","3","4","5","6","7","8","9">>

\* Python str(i) for i >= 0: the decimal digits of i
RECURSIVE Str(_)
Str(i) == IF i < 10 THEN <<Digits[i + 1]>> ELSE Str(i \div 10) \o <<Digits[(i % 10) + 1]>>

\* -------------------------------------------------------------- the schema
\* column_map of load_and_prepare_passengers: CSV header -> canonical column
column_map ==
    [PassengerId |-> "passenger_id", Name |-> "name", Sex |-> "sex", Age |-> "age",
     SibSp |-> "sibsp", Parch |-> "parch", Fare |-> "fare", Embarked |-> "embarked"]

RecognizedHeaders == DOMAIN column_map

CanonicalColumns == {column_map[h] : h \in RecognizedHeaders}

\* ------------------------------------------------------------- CSV inputs
\* Header sets of the passengers CSV: the Kaggle Titanic header, the
\* recognized headers without Age, a minimal header, and one without the key.
KaggleHeader ==
    {"PassengerId","Survived","Pclass","Name","Sex","Age","SibSp","Parch",
     "Ticket","Fare","Cabin","Embarked"}

HeaderSets ==
    { KaggleHeader,
      RecognizedHeaders \ {"Age"},
      {"PassengerId","Name","Sex","Age"},
      RecognizedHeaders \ {"PassengerId"} }

\* Data rows, as the cells of the recognized headers.
SampleRows ==
    { [PassengerId |-> Some(1), Name |-> Some(<<" ","A","l","i","c","e"," ">>),
       Sex |-> Some(<<"F","e","m","a","l","e">>), Age |-> Null,
       SibSp |-> Some(1), Parch |-> Some(0), Fare |-> Some(7), Embarked |-> Some("C")],
      [PassengerId |-> Some(2), Name |-> Some(<<"B","o","b">>),
       Sex |-> Some(<<"M","a","l","e">>), Age |-> Some(40),
       SibSp |-> Some(0), Parch |-> Some(0), Fare |-> Some(8), Embarked |-> Null],
      [PassengerId |-> Some(1), Name |-> Some(<<"E","v","e"," ">>),
       Sex |-> Some(<<"f","e","m","a","l","e">>), Age |-> Some(22),
       SibSp |-> Some(0 - 2), Parch |-> Null, Fare |-> Null, Embarked |-> Some("Q")] }

\* A cell of a header the pipeline does not recognize.
OtherCell == Some("x")

SeqsUpTo(S, n) == UNION {[1..k -> S] : k \in 0..n}

\* pd.read_csv(csv_path): the raw frame of a readable file with header set H
RawFrame(H, rows) ==
    [columns |-> H,
     rows |-> [i \in 1..Len(rows) |->
                 [h \in H |-> IF h \in RecognizedHeaders THEN rows[i][h] ELSE OtherCell]]]

CsvFiles == {RawFrame(H, rows) : H \in HeaderSets, rows \in SeqsUpTo(SampleRows, MaxRows)}

\* ------------------------------------------------------ Record Normalizer
NewName(h) == IF h \in RecognizedHeaders THEN column_map[h] ELSE h

\* df.rename(columns=column_map)
Rename(df) ==
    LET cols == {NewName(h) : h \in df.columns}
        old(c) == CHOOSE h \in df.columns : NewName(h) = c
    IN [columns |-> cols,
        rows |-> [i \in 1..Len(df.rows) |-> [c \in cols |-> df.rows[i][old(c)]]]]

\* df[[v for v in column_map.values() if v in df.columns]]
SelectCanonical(df) ==
    LET cols == {v \in CanonicalColumns : v \in df.columns}
    IN [columns |-> cols,
        rows |-> [i \in 1..Len(df.rows) |-> [c \in cols |-> df.rows[i][c]]]]

\* The column whose absence makes df['age'] raise KeyError.
LoggedColumn == "age"

\* load_and_prepare_passengers after a successful read: the prepared frame,
\* or the KeyError of df['age'] that the handler turns into sys.exit(1).
PreparePassengers(raw) ==
    LET df == SelectCanonical(Rename(raw))
    IN IF LoggedColumn \in df.columns
       THEN [ok |-> TRUE, df |-> df]
       ELSE [ok |-> FALSE, df |-> df]

\* ['T' + str(i) for i in range(1, len(passengers_df)+1)]
\* Fault variant: the index starts at 0, as range(len(passengers_df)) would.
TicketLabelsAlt(n) == [p \in 1..n |-> <<"T">> \o Str(p - 1)]

TicketLabels(n) == [p \in 1..n |-> <<"T">> \o Str(p)]

\* create_tickets_df(passengers_df); needs passengers_df['passenger_id']
create_tickets_df(passengers_df) ==
    [columns |-> {"ticket_id", "passenger_id", "ticket", "class", "cabin"},
     rows |-> [i \in 1..Len(passengers_df.rows) |->
                 [ticket_id |-> passengers_df.rows[i]["passenger_id"],
                  passenger_id |-> passengers_df.rows[i]["passenger_id"],
                  ticket |-> Some(TicketLabels(Len(passengers_df.rows))[i]),
                  class |-> Some(PlaceholderClass),
                  cabin |-> Some(PlaceholderCabin)]]]

\* ------------------------------------------------------------ the database
StagingPassengerColumns == CanonicalColumns

StagingTicketColumns == {"ticket_id", "passenger_id", "ticket", "class", "cabin"}

EmptyDb ==
    [staging_passengers |-> <<>>, staging_tickets |-> <<>>,
     passengers |-> {}, tickets |-> {}]

\* DataFrame.to_sql(table, if_exists='append', index=False): one row per
\* frame row, the columns the frame lacks left NULL.
TableRows(df, tableColumns) ==
    [i \in 1..Len(df.rows) |->
        [c \in tableColumns |-> IF c \in df.columns THEN df.rows[i][c] ELSE Null]]

\* TRUNCATE TABLE staging_passengers, staging_tickets RESTART IDENTITY
\* Fault variant: staging_tickets is left out of the TRUNCATE.
TruncateStagingAlt(d) == [d EXCEPT !.staging_passengers = <<>>]

TruncateStaging(d) == [d EXCEPT !.staging_passengers = <<>>, !.staging_tickets = <<>>]

AppendPassengers(d, df) ==
    [d EXCEPT !.staging_passengers = @ \o TableRows(df, StagingPassengerColumns)]

AppendTickets(d, df) ==
    [d EXCEPT !.staging_tickets = @ \o TableRows(df, StagingTicketColumns)]

\* Leaving `with engine.begin() as conn:` by an exception: the transaction
\* is rolled back, the database is as it was when the block was entered.
\* Fault variant: autocommit, the statements already run stay applied.
RollbackAlt(before, work) == work

Rollback(before, work) == before

StagingFailPoints == {"none", "TRUNCATE", "INSERT staging_passengers", "INSERT staging_tickets"}

\* The transaction of load_to_staging, with an SQL error at statement `fail`.
StagingTxn(d, pdf, tdf, fail) ==
    LET s1 == TruncateStaging(d)
        s2 == AppendPassengers(s1, pdf)
        s3 == AppendTickets(s2, tdf)
    IN CASE fail = "TRUNCATE" -> [ok |-> FALSE, db |-> Rollback(d, d)]
         [] fail = "INSERT staging_passengers" -> [ok |-> FALSE, db |-> Rollback(d, s1)]
         [] fail = "INSERT staging_tickets" -> [ok |-> FALSE, db |-> Rollback(d, s2)]
         [] OTHER -> [ok |-> TRUE, db |-> s3]

\* DELETE FROM tickets; DELETE FROM passengers;
\* Fault variant: only the tickets table is cleared.
DeleteFinalAlt(d) == [d EXCEPT !.tickets = {}]

DeleteFinal(d) == [d EXCEPT !.tickets = {}, !.passengers = {}]

\* The SELECT list of INSERT INTO passengers
\* Fault variant: age and embarked are copied without COALESCE.
TransformPassengerAlt(r) ==
    [passenger_id |-> r["passenger_id"],
     name |-> Trim(r["name"]),
     sex |-> Lower(r["sex"]),
     age |-> r["age"],
     family_size |-> Some(Coalesce(r["sibsp"], 0)[1] + Coalesce(r["parch"], 0)[1] + 1),
     embarked |-> r["embarked"]]

TransformPassenger(r) ==
    [passenger_id |-> r["passenger_id"],
     name |-> Trim(r["name"]),
     sex |-> Lower(r["sex"]),
     age |-> Coalesce(r["age"], DefaultAge),
     family_size |-> Some(Coalesce(r["sibsp"], 0)[1] + Coalesce(r["parch"], 0)[1] + 1),
     embarked |-> Coalesce(r["embarked"], DefaultEmbarked)]

\* The SELECT list of INSERT INTO tickets
TransformTicket(r) ==
    [ticket_id |-> r["ticket_id"], passenger_id |-> r["passenger_id"],
     ticket_number |-> r["ticket"], class |-> r["class"], cabin |-> r["cabin"]]

\* INSERT ... ON CONFLICT (key) DO UPDATE SET <every other column> = EXCLUDED.*
\* over the rows in order.  A NULL key violates the primary key; a key that
\* this statement already inserted or updated is the error "ON CONFLICT DO
\* UPDATE command cannot affect row a second time".
RECURSIVE Upsert(_, _, _, _)
Upsert(table, rows, key, touched) ==
    IF rows = <<>> THEN [ok |-> TRUE, table |-> table]
    ELSE LET r == Head(rows)
         IN IF r[key] = Null \/ r[key] \in touched
            THEN [ok |-> FALSE, table |-> table]
            ELSE Upsert({x \in table : x[key] # r[key]} \cup {r},
                        Tail(rows), key, touched \cup {r[key]})

InsertPassengers(d) ==
    LET rows == [i \in 1..Len(d.staging_passengers) |-> TransformPassenger(d.staging_passengers[i])]
        res == Upsert(d.passengers, rows, "passenger_id", {})
    IN [ok |-> res.ok, db |-> [d EXCEPT !.passengers = res.table]]

\* Fault variant: the staged tickets are moved, not copied.
InsertTicketsAlt(d) ==
    LET rows == [i \in 1..Len(d.staging_tickets) |-> TransformTicket(d.staging_tickets[i])]
        res == Upsert(d.tickets, rows, "ticket_id", {})
    IN [ok |-> res.ok, db |-> [d EXCEPT !.tickets = res.table, !.staging_tickets = <<>>]]

InsertTickets(d) ==
    LET rows == [i \in 1..Len(d.staging_tickets) |-> TransformTicket(d.staging_tickets[i])]
        res == Upsert(d.tickets, rows, "ticket_id", {})
    IN [ok |-> res.ok, db |-> [d EXCEPT !.tickets = res.table]]

PromoteFailPoints == {"none", "DELETE", "INSERT passengers", "INSERT tickets"}

\* The statements of transform_and_load up to the first one that fails,
\* either because the connection fails there (`fail`) or on the data.
PromoteStatements(d, fail) ==
    LET s1 == DeleteFinal(d)
        r2 == InsertPassengers(s1)
        r3 == InsertTickets(r2.db)
    IN CASE fail = "DELETE" -> [ok |-> FALSE, db |-> d]
         [] fail = "INSERT passengers" \/ ~r2.ok -> [ok |-> FALSE, db |-> s1]
         [] fail = "INSERT tickets" \/ ~r3.ok -> [ok |-> FALSE, db |-> r2.db]
         [] OTHER -> [ok |-> TRUE, db |-> r3.db]

\* The transaction of transform_and_load.
PromoteTxn(d, fail) ==
    LET res == PromoteStatements(d, fail)
    IN IF res.ok THEN res ELSE [ok |-> FALSE, db |-> Rollback(d, res.db)]

\* ------------------------------------------------------------------ state
VARIABLES
    pc,             \* where the current process is in main(); "idle" before the first run
    runs,           \* processes started so far
    tickets_csv,    \* main's tickets_csv argument: Null (None) or Some("tickets.csv")
    csv_columns,    \* header of the frame pd.read_csv returned in this run, Null before
    passengers_df,  \* main's passengers_df: Null before it is assigned
    tickets_df,     \* main's tickets_df: Null before it is assigned
    db,             \* the four tables of the database
    dbWork,         \* what this run has done to the database so far
    exit_code,      \* Null while the process runs, Some(status) once it ended
    error           \* what ended the run abnormally, "" otherwise

vars == <<pc, runs, tickets_csv, csv_columns, passengers_df, tickets_df, db, dbWork,
          exit_code, error>>

Init ==
    /\ pc = "idle"
    /\ runs = 0
    /\ tickets_csv = Null
    /\ csv_columns = Null
    /\ passengers_df = Null
    /\ tickets_df = Null
    /\ db = EmptyDb
    /\ dbWork = {}
    /\ exit_code = Null
    /\ error = ""

\* sys.exit(status) or an uncaught exception (status 1): the process ends,
\* its frames are gone, the database stays.
Exit(status, why) ==
    /\ pc' = "exit"
    /\ exit_code' = Some(status)
    /\ error' = why
    /\ passengers_df' = Null
    /\ tickets_df' = Null

\* ----------------------------------------------------------------- actions
\* `python etl_pipeline.py --passengers P [--tickets T]`: argparse, then main.
\* Without --passengers argparse ends the process with status 2.
StartRun ==
    /\ pc \in {"idle", "exit"}
    /\ runs < MaxRuns
    /\ runs' = runs + 1
    /\ csv_columns' = Null
    /\ dbWork' = {}
    /\ UNCHANGED db
    /\ \E passengersGiven \in BOOLEAN, t \in {Null, Some("tickets.csv")} :
         /\ tickets_csv' = t
         /\ IF passengersGiven
            THEN /\ pc' = "main"
                 /\ exit_code' = Null
                 /\ error' = ""
                 /\ passengers_df' = Null
                 /\ tickets_df' = Null
            ELSE Exit(2, "usage")

\* main: the passengers path is checked first, then connect_db() is called.
\* Fault variant: the connection is opened before the path is checked.
CheckPassengersPathAlt ==
    /\ pc = "main"
    /\ UNCHANGED <<runs, tickets_csv, csv_columns, db>>
    /\ \E exists \in BOOLEAN :
         IF exists
         THEN /\ pc' = "connect"
              /\ UNCHANGED <<passengers_df, tickets_df, dbWork, exit_code, error>>
         ELSE /\ dbWork' = {"connect", "SELECT 1"}
              /\ Exit(1, "passengers file not found")

CheckPassengersPath ==
    /\ pc = "main"
    /\ UNCHANGED <<runs, tickets_csv, csv_columns, db, dbWork>>
    /\ \E exists \in BOOLEAN :
         IF exists
         THEN /\ pc' = "connect"
              /\ UNCHANGED <<passengers_df, tickets_df, exit_code, error>>
         ELSE Exit(1, "passengers file not found")

\* connect_db(): opens a connection and runs SELECT 1; any failure is logged
\* and ends the process with status 1.
ConnectDb ==
    /\ pc = "connect"
    /\ UNCHANGED <<runs, tickets_csv, csv_columns, db>>
    /\ \E ok \in BOOLEAN :
         IF ok
         THEN /\ dbWork' = dbWork \cup {"connect", "SELECT 1"}
              /\ pc' = "read"
              /\ UNCHANGED <<passengers_df, tickets_df, exit_code, error>>
         ELSE /\ dbWork' = dbWork \cup {"connect"}
              /\ Exit(1, "database connection failed")

\* load_and_prepare_passengers(passengers_path): every exception (an
\* unreadable file, the KeyError of df['age']) is logged and ends the process.
LoadAndPreparePassengers ==
    /\ pc = "read"
    /\ UNCHANGED <<runs, tickets_csv, db, dbWork>>
    /\ \/ /\ csv_columns' = Null
          /\ Exit(1, "error reading or preparing passengers CSV")
       \/ \E raw \in CsvFiles :
            /\ csv_columns' = Some(raw.columns)
            /\ LET res == PreparePassengers(raw)
               IN IF res.ok
                  THEN /\ passengers_df' = Some(res.df)
                       /\ pc' = "tickets"
                       /\ UNCHANGED <<tickets_df, exit_code, error>>
                  ELSE Exit(1, "error reading or preparing passengers CSV")

\* main, lines 128-135: the tickets branch.  load_and_prepare_tickets is not
\* defined anywhere in the module, so calling it raises NameError;
\* create_tickets_df raises KeyError without a passenger_id column.
TicketsBranch ==
    /\ pc = "tickets"
    /\ UNCHANGED <<runs, tickets_csv, csv_columns, db, dbWork>>
    /\ IF tickets_csv # Null
       THEN \E exists \in BOOLEAN :
              IF ~exists
              THEN Exit(1, "tickets file not found")
              ELSE Exit(1, "NameError: load_and_prepare_tickets")
       ELSE IF "passenger_id" \notin passengers_df[1].columns
            THEN Exit(1, "KeyError: passenger_id")
            ELSE /\ tickets_df' = Some(create_tickets_df(passengers_df[1]))
                 /\ pc' = "staging"
                 /\ UNCHANGED <<passengers_df, exit_code, error>>

\* load_to_staging(engine, passengers_df, tickets_df): one transaction; an
\* SQL error rolls it back and, uncaught, ends the process with status 1.
LoadToStaging ==
    /\ pc = "staging"
    /\ UNCHANGED <<runs, tickets_csv, csv_columns>>
    /\ \E fail \in StagingFailPoints :
         LET res == StagingTxn(db, passengers_df[1], tickets_df[1], fail)
         IN /\ db' = res.db
            /\ dbWork' = dbWork \cup {"load_to_staging"}
            /\ IF res.ok
               THEN /\ pc' = "transform"
                    /\ UNCHANGED <<passengers_df, tickets_df, exit_code, error>>
               ELSE Exit(1, "SQL error in load_to_staging")

\* transform_and_load(engine): one transaction, same failure behaviour.
TransformAndLoad ==
    /\ pc = "transform"
    /\ UNCHANGED <<runs, tickets_csv, csv_columns>>
    /\ \E fail \in PromoteFailPoints :
         LET res == PromoteTxn(db, fail)
         IN /\ db' = res.db
            /\ dbWork' = dbWork \cup {"transform_and_load"}
            /\ IF res.ok
               THEN /\ pc' = "report"
                    /\ UNCHANGED <<passengers_df, tickets_df, exit_code, error>>
               ELSE Exit(1, "SQL error in transform_and_load")

\* show_analytics(engine): reads the view analytics_summary and logs it;
\* main then returns and the process ends with status 0.
ShowAnalytics ==
    /\ pc = "report"
    /\ UNCHANGED <<runs, tickets_csv, csv_columns, db>>
    /\ dbWork' = dbWork \cup {"show_analytics"}
    /\ \E ok \in BOOLEAN :
         IF ok THEN Exit(0, "") ELSE Exit(1, "SQL error in show_analytics")

Next ==
    \/ StartRun
    \/ CheckPassengersPath
    \/ ConnectDb
    \/ LoadAndPreparePassengers
    \/ TicketsBranch
    \/ LoadToStaging
    \/ TransformAndLoad
    \/ ShowAnalytics

Spec == Init /\ [][Next]_vars

\* ------------------------------------------------------------ properties
PassengerIds(rows) == {rows[i]["passenger_id"] : i \in 1..Len(rows)}

TicketIds(rows) == {rows[i]["ticket_id"] : i \in 1..Len(rows)}

\* The final passengers row promoted from staging row s.
PromotedFrom(s) == CHOOSE f \in db.passengers : f.passenger_id = s["passenger_id"]

NullAsZero(x) == IF x = Null THEN 0 ELSE x[1]

\* C1: promotion is idempotent: right after a committed promotion, running
\* transform_and_load again on the unchanged staging tables commits and leaves
\* the final passengers and tickets tables exactly as they are.
C1_PromotionIdempotent ==
    pc = "report" =>
        LET again == PromoteTxn(db, "none")
        IN /\ again.ok
           /\ again.db.passengers = db.passengers
           /\ again.db.tickets = db.tickets

C1_Witness ==
    /\ pc = "report"
    /\ Cardinality(db.passengers) = 2
    /\ Cardinality(db.tickets) = 2

\* C2: a promotion that fails at any statement leaves the final passengers
\* and tickets tables with exactly their contents from before the run.
C2_FailedPromotionKeepsFinal ==
    [][(pc = "transform" /\ pc' = "exit") =>
          (db'.passengers = db.passengers /\ db'.tickets = db.tickets)]_vars

\* A promotion that failed on a duplicate key in the staged batch while the
\* final tables held rows of an earlier run.
C2_Witness ==
    /\ pc = "exit"
    /\ error = "SQL error in transform_and_load"
    /\ db.passengers # {}
    /\ db.tickets # {}
    /\ Len(db.staging_passengers) = 2
    /\ db.staging_passengers[1]["passenger_id"] = db.staging_passengers[2]["passenger_id"]

\* The staging table `table` holds exactly the rows of frame df, in order.
HoldsBatch(table, df) ==
    /\ Len(table) = Len(df.rows)
    /\ \A i \in 1..Len(table) :
         \A c \in DOMAIN table[i] :
            table[i][c] = IF c \in df.columns THEN df.rows[i][c] ELSE Null

\* C3: the staging load is all-or-nothing: after it, both staging tables
\* hold exactly the new batches, or (on an error) both hold exactly what they
\* held before.
C3_StagingAllOrNothing ==
    [][pc = "staging" =>
          \/ /\ pc' = "transform"
             /\ HoldsBatch(db'.staging_passengers, passengers_df[1])
             /\ HoldsBatch(db'.staging_tickets, tickets_df[1])
          \/ /\ pc' = "exit"
             /\ db'.staging_passengers = db.staging_passengers
             /\ db'.staging_tickets = db.staging_tickets]_vars

\* A failed staging load over staging tables that an earlier run filled.
C3_Witness ==
    /\ pc = "exit"
    /\ error = "SQL error in load_to_staging"
    /\ db.staging_passengers # <<>>
    /\ db.staging_tickets # <<>>

\* C4: every row of the final passengers table has a non-null age and a
\* non-null embarked; right after a promotion a staged null age has become
\* 30.0, a staged null embarked has become 'S', and a non-null value is kept.
C4_AgeEmbarkedDefaulted ==
    /\ \A f \in db.passengers : f.age # Null /\ f.embarked # Null
    /\ pc = "report" =>
         \A i \in 1..Len(db.staging_passengers) :
            LET s == db.staging_passengers[i]
                f == PromotedFrom(s)
            IN /\ f.age = IF s["age"] = Null THEN <<30>> ELSE s["age"]
               /\ f.embarked = IF s["embarked"] = Null THEN <<"S">> ELSE s["embarked"]

C4_Witness ==
    /\ pc = "report"
    /\ \E i \in 1..Len(db.staging_passengers) : db.staging_passengers[i]["age"] = Null
    /\ \E i \in 1..Len(db.staging_passengers) : db.staging_passengers[i]["embarked"] = Null
    /\ \E i \in 1..Len(db.staging_passengers) : db.staging_passengers[i]["age"] # Null

\* C5: every final passengers row has family_size = sibsp + parch + 1 of the
\* staging row it was promoted from (a missing value counted as 0), and
\* family_size >= 1.
C5_FamilySize ==
    /\ \A f \in db.passengers : f.family_size # Null /\ f.family_size[1] >= 1
    /\ pc = "report" =>
         \A i \in 1..Len(db.staging_passengers) :
            LET s == db.staging_passengers[i]
            IN PromotedFrom(s).family_size =
                  <<NullAsZero(s["sibsp"]) + NullAsZero(s["parch"]) + 1>>

ExpectedLabels == << <<"T","1">>, <<"T","2">>, <<"T","3">>, <<"T","4">> >>

\* The ticket synthesized for the i-th row of frame df.
ExpectedTicket(df, i, numberColumn) ==
    [c \in {"ticket_id", "passenger_id", numberColumn, "class", "cabin"} |->
        CASE c \in {"ticket_id", "passenger_id"} -> df.rows[i]["passenger_id"]
          [] c = numberColumn -> <<ExpectedLabels[i]>>
          [] c = "class" -> <<3>>
          [] OTHER -> <<"Unknown">>]

\* C6: without a tickets CSV the ticket batch has one ticket per passenger
\* row, in row order: ticket_id = passenger_id = the row's passenger_id,
\* number T1..TN, class 3, cabin "Unknown"; after promotion the final tickets
\* table holds exactly these N rows.
C6_SynthesizedTickets ==
    /\ tickets_df # Null =>
         /\ Len(tickets_df[1].rows) = Len(passengers_df[1].rows)
         /\ \A i \in 1..Len(tickets_df[1].rows) :
               tickets_df[1].rows[i] = ExpectedTicket(passengers_df[1], i, "ticket")
    /\ pc = "report" =>
         /\ db.tickets = {ExpectedTicket(passengers_df[1], i, "ticket_number") :
                            i \in 1..Len(passengers_df[1].rows)}
         /\ Cardinality(db.tickets) = Len(passengers_df[1].rows)

C6_Witness ==
    /\ pc = "report"
    /\ tickets_csv = Null
    /\ Len(passengers_df[1].rows) = 2
    /\ Cardinality(db.tickets) = 2

\* C7 as stated: a run that ends on a nonexistent passengers or tickets file
\* exits non-zero and has done no database work at all.
C7_NoDbWorkBeforeMissingFileExit ==
    (pc = "exit" /\ error \in {"passengers file not found", "tickets file not found"}) =>
        /\ exit_code # <<0>>
        /\ dbWork = {}

\* C7 (amended): a run that ends on a nonexistent passengers file exits
\* non-zero with no database work at all; a run that ends on a nonexistent
\* tickets file exits non-zero having only opened the connection and run the
\* probe query of connect_db, with no staging or final table touched.
C7_MissingFileExit ==
    /\ (pc = "exit" /\ error = "passengers file not found") =>
          (exit_code = <<1>> /\ dbWork = {})
    /\ (pc = "exit" /\ error = "tickets file not found") =>
          (exit_code = <<1>> /\ dbWork = {"connect", "SELECT 1"})

C7_Witness ==
    /\ pc = "exit"
    /\ error = "tickets file not found"
    /\ db.passengers # {}

\* C8: for a readable CSV whose header set is a subset of the recognized
\* headers that includes PassengerId, load_and_prepare_passengers returns a
\* frame with exactly the recognized columns present and does not end the run.
C8_MissingColumnsTolerated ==
    [][(/\ pc = "read"
        /\ csv_columns' # Null
        /\ "PassengerId" \in csv_columns'[1]
        /\ csv_columns'[1] \subseteq RecognizedHeaders) =>
          (/\ pc' = "tickets"
           /\ passengers_df'[1].columns = {column_map[h] : h \in csv_columns'[1]})]_vars

\* C9: with a tickets CSV that exists, the run takes its ticket batch from
\* that file and goes on to the staging load.
C9_TicketsFileUsed ==
    [][(/\ pc = "tickets"
        /\ tickets_csv # Null
        /\ error' # "tickets file not found") =>
          (pc' = "staging" /\ tickets_df' # Null)]_vars

\* C10: right after a committed promotion the keys of final passengers are
\* exactly the keys of staging_passengers and the keys of final tickets are
\* exactly the keys of staging_tickets, each key once: no row of an earlier
\* run survives.
C10_PromotionReplacesFinal ==
    pc = "report" =>
        /\ {f.passenger_id : f \in db.passengers} = PassengerIds(db.staging_passengers)
        /\ Cardinality(db.passengers) = Cardinality(PassengerIds(db.staging_passengers))
        /\ {t.ticket_id : t \in db.tickets} = TicketIds(db.staging_tickets)
        /\ Cardinality(db.tickets) = Cardinality(TicketIds(db.staging_tickets))

C10_Witness ==
    /\ pc = "report"
    /\ runs = MaxRuns
    /\ Cardinality(db.passengers) = 1

====
